---- MODULE Spec2Model ----
(***************************************************************************)
(* The JSON formatter of tracing-subscriber (fmt/format/json.rs): the      *)
(* field visitor, the per-span field store (format_fields / add_fields),   *)
(* the span serialisers and format_event.                                  *)
(*                                                                         *)
(* Text is a sequence of one-character strings.  JSON text is produced     *)
(* write by write, as serde_json's compact formatter produces it, and is   *)
(* read back by a character-level parser.                                  *)
(***************************************************************************)
EXTENDS Integers, Sequences, FiniteSets, TLC

(***************************************************************************)
(* Characters and strings                                                  *)
(***************************************************************************)

\* Byte value of the characters the model uses (the order of BTreeMap keys).
CharCode(c) ==
    CASE c = " "  -> 32
      [] c = "\"" -> 34
      [] c = "#"  -> 35
      [] c = ","  -> 44
      [] c = "-"  -> 45
      [] c = "."  -> 46
      [] c = "0"  -> 48
      [] c = "1"  -> 49
      [] c = "2"  -> 50
      [] c = "3"  -> 51
      [] c = "4"  -> 52
      [] c = "5"  -> 53
      [] c = "6"  -> 54
      [] c = "7"  -> 55
      [] c = "8"  -> 56
      [] c = "9"  -> 57
      [] c = ":"  -> 58
      [] c = "I"  -> 73
      [] c = "N"  -> 78
      [] c = "F"  -> 70
      [] c = "O"  -> 79
      [] c = "T"  -> 84
      [] c = "["  -> 91
      [] c = "\\" -> 92
      [] c = "]"  -> 93
      [] c = "_"  -> 95
      [] c = "a"  -> 97
      [] c = "b"  -> 98
      [] c = "c"  -> 99
      [] c = "d"  -> 100
      [] c = "e"  -> 101
      [] c = "f"  -> 102
      [] c = "g"  -> 103
      [] c = "h"  -> 104
      [] c = "i"  -> 105
      [] c = "k"  -> 107
      [] c = "l"  -> 108
      [] c = "m"  -> 109
      [] c = "n"  -> 110
      [] c = "o"  -> 111
      [] c = "p"  -> 112
      [] c = "q"  -> 113
      [] c = "r"  -> 114
      [] c = "s"  -> 115
      [] c = "t"  -> 116
      [] c = "u"  -> 117
      [] c = "v"  -> 118
      [] c = "x"  -> 120
      [] c = "y"  -> 121
      [] c = "{"  -> 123
      [] c = "}"  -> 125
      [] OTHER    -> 127

\* a < b in the byte-wise lexicographic order of str.
RECURSIVE StrLess(_, _)
StrLess(a, b) ==
    IF b = <<>> THEN FALSE
    ELSE IF a = <<>> THEN TRUE
    ELSE IF CharCode(Head(a)) < CharCode(Head(b)) THEN TRUE
    ELSE IF CharCode(Head(a)) > CharCode(Head(b)) THEN FALSE
    ELSE StrLess(Tail(a), Tail(b))

\* str::starts_with
StartsWith(s, p) == Len(s) >= Len(p) /\ SubSeq(s, 1, Len(p)) = p

\* Body applied to the value of e: e is evaluated once, whatever the
\* number of places Body uses it in.
Let(e, Body(_)) == CHOOSE y \in {Body(x) : x \in {e}} : TRUE

DigitChar(d) == <<"0", "1", "2", "3", "4", "5", "6", "7", "8", "9">>[d + 1]

IsDigit(c) == c \in {"0", "1", "2", "3", "4", "5", "6", "7", "8", "9"}

DigitVal(c) == CharCode(c) - CharCode("0")

\* Decimal rendering of an integer (itoa).
RECURSIVE NatToStr(_)
NatToStr(n) ==
    IF n < 10 THEN <<DigitChar(n)>>
    ELSE NatToStr(n \div 10) \o <<DigitChar(n % 10)>>

IntToStr(n) == IF n < 0 THEN <<"-">> \o NatToStr(-n) ELSE NatToStr(n)

(***************************************************************************)
(* serde_json::Value.  One record shape for every variant:                 *)
(*   t  the variant, n  the number (or 0/1 for a boolean), s  the string,  *)
(*   c  the children: entries [k, v] of an object in key order, or the     *)
(*      elements of an array as entries with an empty key.                 *)
(***************************************************************************)
VNull      == [t |-> "null", n |-> 0, s |-> <<>>, c |-> <<>>]
VBool(b)   == [t |-> "bool", n |-> IF b THEN 1 ELSE 0, s |-> <<>>, c |-> <<>>]
VNum(i)    == [t |-> "num",  n |-> i, s |-> <<>>, c |-> <<>>]
VStr(str)  == [t |-> "str",  n |-> 0, s |-> str,  c |-> <<>>]
VArr(es)   == [t |-> "arr",  n |-> 0, s |-> <<>>, c |-> es]
VObj(es)   == [t |-> "obj",  n |-> 0, s |-> <<>>, c |-> es]

Entry(key, val) == [k |-> key, v |-> val]

\* BTreeMap::insert on a map kept as a key-sorted sequence of entries:
\* a present key has its value replaced, a new key goes to its sorted place.
RECURSIVE MapInsert(_, _, _)
MapInsert(m, key, val) ==
    IF m = <<>> THEN <<Entry(key, val)>>
    ELSE IF Head(m).k = key THEN <<Entry(key, val)>> \o Tail(m)
    ELSE IF StrLess(key, Head(m).k) THEN <<Entry(key, val)>> \o m
    ELSE <<Head(m)>> \o MapInsert(Tail(m), key, val)

\* Collecting parsed entries, in text order, into a BTreeMap.
RECURSIVE MapFromEntries(_, _)
MapFromEntries(acc, es) ==
    IF es = <<>> THEN acc
    ELSE MapFromEntries(MapInsert(acc, Head(es).k, Head(es).v), Tail(es))

MapKeys(m) == {m[i].k : i \in 1..Len(m)}

MapHas(m, key) == \E i \in 1..Len(m) : m[i].k = key

MapGet(m, key) == m[CHOOSE i \in 1..Len(m) : m[i].k = key].v

(***************************************************************************)
(* serde_json's parser (serde_json::from_str), character by character.     *)
(* A result is [ok, i, v, e, kesc]: i the next position, v the value read  *)
(* with an object's entries in text order (duplicates kept), e the error   *)
(* code, kesc whether a key of the outermost object held an escape.        *)
(* Numbers are integers; whitespace is the space character; the escapes    *)
(* are \" and \\ (the only ones the model's alphabet needs).               *)
(***************************************************************************)
POk(i, v)  == [ok |-> TRUE,  i |-> i, v |-> v,     e |-> "",  kesc |-> FALSE]
PErr(i, e) == [ok |-> FALSE, i |-> i, v |-> VNull, e |-> e,   kesc |-> FALSE]

\* Error::fmt of serde_json's ErrorCode, abbreviated to a short text.
ErrText(e) ==
    CASE e = "EofWhileParsingList"      -> <<"e", "l">>
      [] e = "EofWhileParsingObject"    -> <<"e", "o">>
      [] e = "EofWhileParsingString"    -> <<"e", "s">>
      [] e = "EofWhileParsingValue"     -> <<"e", "v">>
      [] e = "ExpectedColon"            -> <<"x", "c">>
      [] e = "ExpectedListCommaOrEnd"   -> <<"x", "l">>
      [] e = "ExpectedObjectCommaOrEnd" -> <<"x", "o">>
      [] e = "ExpectedSomeIdent"        -> <<"x", "i">>
      [] e = "ExpectedSomeValue"        -> <<"x", "v">>
      [] e = "InvalidEscape"            -> <<"i", "e">>
      [] e = "InvalidNumber"            -> <<"i", "n">>
      [] e = "KeyMustBeAString"         -> <<"k", "s">>
      [] e = "TrailingComma"            -> <<"t", "c">>
      [] e = "TrailingCharacters"       -> <<"t", "x">>
      [] OTHER                          -> <<"x">>

\* Deserializer::parse_whitespace
RECURSIVE SkipWs(_, _)
SkipWs(s, i) == IF i <= Len(s) /\ s[i] = " " THEN SkipWs(s, i + 1) ELSE i

\* Read::parse_str, from the character after the opening quote.
\* [ok, i, str, esc, e]
RECURSIVE ParseStr(_, _, _, _)
ParseStr(s, i, acc, esc) ==
    IF i > Len(s)
    THEN [ok |-> FALSE, i |-> i, str |-> <<>>, esc |-> esc, e |-> "EofWhileParsingString"]
    ELSE IF s[i] = "\""
    THEN [ok |-> TRUE, i |-> i + 1, str |-> acc, esc |-> esc, e |-> ""]
    ELSE IF s[i] = "\\"
    THEN IF i + 1 > Len(s)
         THEN [ok |-> FALSE, i |-> i, str |-> <<>>, esc |-> esc, e |-> "EofWhileParsingString"]
         ELSE IF s[i + 1] \in {"\"", "\\"}
         THEN ParseStr(s, i + 2, Append(acc, s[i + 1]), TRUE)
         ELSE [ok |-> FALSE, i |-> i, str |-> <<>>, esc |-> esc, e |-> "InvalidEscape"]
    ELSE ParseStr(s, i + 1, Append(acc, s[i]), esc)

\* The digits of a number from position i: [i, n].
RECURSIVE ParseDigits(_, _, _)
ParseDigits(s, i, acc) ==
    IF i <= Len(s) /\ IsDigit(s[i])
    THEN ParseDigits(s, i + 1, acc * 10 + DigitVal(s[i]))
    ELSE [i |-> i, n |-> acc]

\* The number whose digits are d.
NumOf(d, neg) == POk(d.i, VNum(IF neg THEN -d.n ELSE d.n))

\* Deserializer::parse_integer: a leading 0 takes no further digit.
ParseNum(s, i, neg) ==
    IF i > Len(s) THEN PErr(i, "EofWhileParsingValue")
    ELSE IF ~IsDigit(s[i]) THEN PErr(i, "InvalidNumber")
    ELSE IF s[i] = "0"
    THEN IF i + 1 <= Len(s) /\ IsDigit(s[i + 1])
         THEN PErr(i + 1, "InvalidNumber")
         ELSE POk(i + 1, VNum(0))
    ELSE NumOf(ParseDigits(s, i, 0), neg)

\* Deserializer::parse_ident
ParseIdent(s, i, rest, v) ==
    IF i + Len(rest) - 1 > Len(s) THEN PErr(i, "EofWhileParsingValue")
    ELSE IF SubSeq(s, i, i + Len(rest) - 1) = rest THEN POk(i + Len(rest), v)
    ELSE PErr(i, "ExpectedSomeIdent")

\* The value of a string read by parse_str.
StrOf(r) == IF r.ok THEN POk(r.i, VStr(r.str)) ELSE PErr(r.i, r.e)

RECURSIVE ParseValueAt(_, _)
RECURSIVE ParseSeq(_, _, _, _)
RECURSIVE ParseMap(_, _, _, _, _)

\* Deserializer::deserialize_any: the value from position i0.
ParseValue(s, i0) == ParseValueAt(s, SkipWs(s, i0))

\* The value at a position past the whitespace.
ParseValueAt(s, i) ==
    IF i > Len(s) THEN PErr(i, "EofWhileParsingValue")
    ELSE CASE s[i] = "n"  -> ParseIdent(s, i + 1, <<"u", "l", "l">>, VNull)
           [] s[i] = "t"  -> ParseIdent(s, i + 1, <<"r", "u", "e">>, VBool(TRUE))
           [] s[i] = "f"  -> ParseIdent(s, i + 1, <<"a", "l", "s", "e">>, VBool(FALSE))
           [] s[i] = "-"  -> ParseNum(s, i + 1, TRUE)
           [] IsDigit(s[i]) -> ParseNum(s, i, FALSE)
           [] s[i] = "\"" -> StrOf(ParseStr(s, i + 1, <<>>, FALSE))
           [] s[i] = "["  -> ParseSeq(s, i + 1, TRUE, <<>>)
           [] s[i] = "{"  -> ParseMap(s, i + 1, TRUE, <<>>, FALSE)
           [] OTHER       -> PErr(i, "ExpectedSomeValue")

\* SeqAccess::next_element_seed: the element r read, then the rest.
ParseSeqRest(s, r, acc) ==
    IF r.ok THEN ParseSeq(s, r.i, FALSE, Append(acc, Entry(<<>>, r.v))) ELSE r

\* The element at j.
ParseSeqElem(s, j, acc) ==
    IF j > Len(s) THEN PErr(j, "EofWhileParsingValue")
    ELSE IF s[j] = "]" THEN PErr(j, "TrailingComma")
    ELSE ParseSeqRest(s, ParseValue(s, j), acc)

\* An array at i, past the whitespace: its end, or `,` and the next element.
ParseSeqAt(s, i, first, acc) ==
    IF i > Len(s) THEN PErr(i, "EofWhileParsingList")
    ELSE IF s[i] = "]" THEN POk(i + 1, VArr(acc))
    ELSE IF ~first /\ s[i] # "," THEN PErr(i, "ExpectedListCommaOrEnd")
    ELSE ParseSeqElem(s, IF first THEN i ELSE SkipWs(s, i + 1), acc)

ParseSeq(s, i0, first, acc) == ParseSeqAt(s, SkipWs(s, i0), first, acc)

\* MapAccess::next_value_seed: the value r read, then the rest.
ParseMapRest(s, key, r, acc, kesc) ==
    IF r.ok
    THEN ParseMap(s, r.i, FALSE, Append(acc, Entry(key.str, r.v)), kesc \/ key.esc)
    ELSE [r EXCEPT !.kesc = FALSE]

\* The colon at c, and the value.
ParseMapValue(s, key, c, acc, kesc) ==
    IF c > Len(s) THEN PErr(c, "EofWhileParsingObject")
    ELSE IF s[c] # ":" THEN PErr(c, "ExpectedColon")
    ELSE ParseMapRest(s, key, ParseValue(s, c + 1), acc, kesc)

\* The key read, then its value.
ParseMapKeyed(s, key, acc, kesc) ==
    IF ~key.ok THEN PErr(key.i, key.e)
    ELSE ParseMapValue(s, key, SkipWs(s, key.i), acc, kesc)

\* MapAccess::next_key_seed for the key at j.
ParseMapKey(s, j, acc, kesc) ==
    IF j > Len(s) THEN PErr(j, "EofWhileParsingValue")
    ELSE IF s[j] = "}" THEN PErr(j, "TrailingComma")
    ELSE IF s[j] # "\"" THEN PErr(j, "KeyMustBeAString")
    ELSE ParseMapKeyed(s, ParseStr(s, j + 1, <<>>, FALSE), acc, kesc)

\* An object at i, past the whitespace: its end, or `,` and the next entry.
ParseMapAt(s, i, first, acc, kesc) ==
    IF i > Len(s) THEN PErr(i, "EofWhileParsingObject")
    ELSE IF s[i] = "}" THEN [POk(i + 1, VObj(acc)) EXCEPT !.kesc = kesc]
    ELSE IF ~first /\ s[i] # "," THEN PErr(i, "ExpectedObjectCommaOrEnd")
    ELSE ParseMapKey(s, IF first THEN i ELSE SkipWs(s, i + 1), acc, kesc)

ParseMap(s, i0, first, acc, kesc) == ParseMapAt(s, SkipWs(s, i0), first, acc, kesc)

\* Deserializer::end: only whitespace may follow the value.
ParseEnd(s, r) ==
    IF ~r.ok THEN r
    ELSE IF SkipWs(s, r.i) <= Len(s) THEN PErr(SkipWs(s, r.i), "TrailingCharacters")
    ELSE r

ParseDoc(s) == ParseEnd(s, ParseValue(s, 1))

\* The serde_json::Value of a parsed text: an object is a BTreeMap, so its
\* entries are in key order and a repeated key keeps its last value.
RECURSIVE ToValue(_)
ToValue(v) ==
    IF v.t = "obj"
    THEN VObj(MapFromEntries(<<>>, [j \in 1..Len(v.c) |-> Entry(v.c[j].k, ToValue(v.c[j].v))]))
    ELSE IF v.t = "arr"
    THEN VArr([j \in 1..Len(v.c) |-> Entry(<<>>, ToValue(v.c[j].v))])
    ELSE v

\* serde_json::from_str::<serde_json::Value>
ValueOf(r) ==
    IF r.ok THEN [ok |-> TRUE, v |-> ToValue(r.v), e |-> ""]
    ELSE [ok |-> FALSE, v |-> VNull, e |-> r.e]

FromStrValue(s) == ValueOf(ParseDoc(s))

\* serde_json::from_str::<BTreeMap<&str, serde_json::Value>>: the text must
\* be an object, and every key must be borrowed from the text, which a key
\* holding an escape sequence cannot be.
MapOf(r) ==
    IF r.ok /\ r.v.t = "obj" /\ ~r.kesc
    THEN [ok |-> TRUE, m |-> ToValue(r.v).c]
    ELSE [ok |-> FALSE, m |-> <<>>]

FromStrMap(s) == MapOf(ParseDoc(s))

(***************************************************************************)
(* The write path.  What a serializer does is a program: the sequence of   *)
(* its steps in order,                                                     *)
(*   "write"  one io::Write::write of buf on the WriteAdaptor,             *)
(*   "panic"  a panic!,                                                    *)
(*   "try" .. "catch"  the steps of a Result that .unwrap_or(()) drops.    *)
(* Run executes a program against a writer:                                *)
(*   out    the text the sink has accepted,                                *)
(*   n      the number of writes attempted,                                *)
(*   rej    the sink, or from_utf8, has refused a write,                    *)
(*   err    an io::Error is propagating (every `?` up to the next place    *)
(*          that handles the error returns early, so no step runs),        *)
(*   held   err as it was at the innermost "try",                          *)
(*   panic  the thread has panicked,                                       *)
(*   failAt, sticky, utf8   the environment: the write numbered failAt is  *)
(*          refused (0: none is), every later one too when sticky; utf8    *)
(*          says the refusal is from_utf8's, otherwise the sink's.         *)
(***************************************************************************)
NewWriter(text, failAt, sticky, utf8) ==
    [out |-> text, n |-> 0, rej |-> FALSE, err |-> FALSE, held |-> FALSE, panic |-> FALSE,
     failAt |-> failAt, sticky |-> sticky, utf8 |-> utf8]

\* A String: write_str never fails.
StringWriter(text) == NewWriter(text, 0, FALSE, FALSE)

Refused(w, i) == w.failAt # 0 /\ (i = w.failAt \/ (w.sticky /\ i > w.failAt))

\* <WriteAdaptor as io::Write>::write: from_utf8, then write_str; either
\* failure is an io::Error and nothing of the buffer reaches the sink.
Write(w, buf) ==
    IF w.err \/ w.panic THEN w
    ELSE IF Refused(w, w.n + 1) THEN [w EXCEPT !.n = @ + 1, !.rej = TRUE, !.err = TRUE]
    ELSE [w EXCEPT !.n = @ + 1, !.out = @ \o buf]

Step(w, o) ==
    CASE o.op = "write" -> Write(w, o.buf)
      [] o.op = "panic" -> IF w.err \/ w.panic THEN w ELSE [w EXCEPT !.panic = TRUE]
      [] o.op = "try"   -> [w EXCEPT !.held = w.err]
      [] OTHER          -> [w EXCEPT !.err = w.held]

\* The steps lo..hi of a program, in order.
RECURSIVE RunRange(_, _, _, _)
RunRange(w, ops, lo, hi) ==
    IF lo > hi THEN w
    ELSE IF lo = hi THEN Step(w, ops[lo])
    ELSE Let((lo + hi) \div 2,
             LAMBDA mid : Let(RunRange(w, ops, lo, mid),
                              LAMBDA left : RunRange(left, ops, mid + 1, hi)))

Run(w, ops) == RunRange(w, ops, 1, Len(ops))

W(buf)  == <<[op |-> "write", buf |-> buf]>>
OpPanic == <<[op |-> "panic", buf |-> <<>>]>>
OpTry   == <<[op |-> "try",   buf |-> <<>>]>>
OpCatch == <<[op |-> "catch", buf |-> <<>>]>>

\* The characters format_escaped_str_contents escapes.
NeedsEscape(c) == c \in {"\"", "\\"}

\* Length of the longest prefix of s free of escaped characters.
RECURSIVE PlainPrefix(_)
PlainPrefix(s) ==
    IF s = <<>> \/ NeedsEscape(Head(s)) THEN 0 ELSE 1 + PlainPrefix(Tail(s))

\* format_escaped_str_contents: each run of plain characters is one write,
\* each escaped character one write of its two-character escape.
RECURSIVE WriteStrContents(_)
WriteStrContents(s) ==
    IF s = <<>> THEN <<>>
    ELSE Let(PlainPrefix(s),
             LAMBDA p :
                 IF p > 0
                 THEN W(SubSeq(s, 1, p)) \o WriteStrContents(SubSeq(s, p + 1, Len(s)))
                 ELSE W(<<"\\", Head(s)>>) \o WriteStrContents(Tail(s)))

\* format_escaped_str (Serializer::serialize_str)
WriteStr(s) == W(<<"\"">>) \o WriteStrContents(s) \o W(<<"\"">>)

\* Serializer::collect_str of format_args!("{}.{}", a, b): the quotes, and
\* the three pieces each through format_escaped_str_contents.
WriteDotted(a, b) ==
    W(<<"\"">>) \o WriteStrContents(a) \o WriteStrContents(<<".">>)
        \o WriteStrContents(b) \o W(<<"\"">>)

\* <serde_json::Value as Serialize>::serialize with the compact formatter.
RECURSIVE WriteValue(_)
RECURSIVE WriteElems(_, _, _)
WriteValue(v) ==
    CASE v.t = "null" -> W(<<"n", "u", "l", "l">>)
      [] v.t = "bool" -> W(IF v.n = 1 THEN <<"t", "r", "u", "e">>
                                      ELSE <<"f", "a", "l", "s", "e">>)
      [] v.t = "num"  -> W(IntToStr(v.n))
      [] v.t = "str"  -> WriteStr(v.s)
      [] v.t = "arr"  -> W(<<"[">>) \o WriteElems(v.c, TRUE, FALSE) \o W(<<"]">>)
      [] OTHER        -> W(<<"{">>) \o WriteElems(v.c, TRUE, TRUE) \o W(<<"}">>)

\* The elements of an array, or the entries of an object (keyed).
WriteElems(es, first, keyed) ==
    IF es = <<>> THEN <<>>
    ELSE (IF first THEN <<>> ELSE W(<<",">>))
         \o (IF keyed THEN WriteStr(Head(es).k) \o W(<<":">>) ELSE <<>>)
         \o WriteValue(Head(es).v)
         \o WriteElems(Tail(es), FALSE, keyed)

(***************************************************************************)
(* serde_json's Compound::Map: the program so far and whether the next     *)
(* entry is the object's first (State::First).                             *)
(***************************************************************************)
\* Serializer::serialize_map(None) after the steps `before`: begin_object.
BeginMap(before) == [ops |-> before \o W(<<"{">>), first |-> TRUE]

\* SerializeMap::serialize_key with a plain string key, up to the colon
\* (begin_object_key, the key, end_object_key, begin_object_value).
SerKey(m, key) ==
    [ops |-> m.ops \o (IF m.first THEN <<>> ELSE W(<<",">>)) \o WriteStr(key) \o W(<<":">>),
     first |-> FALSE]

\* SerializeMap::serialize_entry(key, &value) for a serde_json::Value.
SerEntry(m, key, val) ==
    [ops |-> SerKey(m, key).ops \o WriteValue(val), first |-> FALSE]

\* SerializeMap::end: end_object.
EndMap(m) == m.ops \o W(<<"}">>)

(***************************************************************************)
(* Fields.  A field is [name, kind, n, s]: kind is the Visit entry point   *)
(* its value is handed to ("i64", "u64", "bool", "str", "debug"); n is the *)
(* integer (0/1 for a boolean), s the string, or for "debug" the text      *)
(* format!("{:?}", value) renders.  A batch is a sequence of fields.       *)
(***************************************************************************)
FI64(name, i)   == [name |-> name, kind |-> "i64",   n |-> i, s |-> <<>>]
FU64(name, i)   == [name |-> name, kind |-> "u64",   n |-> i, s |-> <<>>]
FBool(name, b)  == [name |-> name, kind |-> "bool",  n |-> IF b THEN 1 ELSE 0, s |-> <<>>]
FStr(name, str) == [name |-> name, kind |-> "str",   n |-> 0, s |-> str]
FDbg(name, str) == [name |-> name, kind |-> "debug", n |-> 0, s |-> str]

RawPrefix == <<"r", "#">>
LogPrefix == <<"l", "o", "g", ".">>

\* serde_json::Value::from(value) of a field's value.
FieldValue(f) ==
    CASE f.kind \in {"i64", "u64"} -> VNum(f.n)
      [] f.kind = "bool"           -> VBool(f.n = 1)
      [] OTHER                     -> VStr(f.s)

(***************************************************************************)
(* JsonVisitor: values is the BTreeMap<&str, serde_json::Value>.           *)
(***************************************************************************)
record_i64(values, f)  == MapInsert(values, f.name, VNum(f.n))

record_u64(values, f)  == MapInsert(values, f.name, VNum(f.n))

record_bool(values, f) == MapInsert(values, f.name, VBool(f.n = 1))

record_str(values, f)  == MapInsert(values, f.name, VStr(f.s))

\* log is cfg(feature = "tracing-log").
record_debug(values, f, log) ==
    IF log /\ StartsWith(f.name, LogPrefix) THEN values
    ELSE IF StartsWith(f.name, RawPrefix)
    THEN MapInsert(values, SubSeq(f.name, 3, Len(f.name)), VStr(f.s))
    ELSE MapInsert(values, f.name, VStr(f.s))

\* The entry point a value of each kind is handed to.
VisitField(values, f, log) ==
    CASE f.kind = "i64"  -> record_i64(values, f)
      [] f.kind = "u64"  -> record_u64(values, f)
      [] f.kind = "bool" -> record_bool(values, f)
      [] f.kind = "str"  -> record_str(values, f)
      [] OTHER           -> record_debug(values, f, log)

\* fields.record(&mut v): every field of the batch, in order.
RECURSIVE RecordFields(_, _, _)
RecordFields(values, batch, log) ==
    IF batch = <<>> THEN values
    ELSE Let(VisitField(values, Head(batch), log),
             LAMBDA values1 : RecordFields(values1, Tail(batch), log))

\* The entries of the map, one serialize_entry each.
RECURSIVE SerEntries(_, _)
SerEntries(m, es) ==
    IF es = <<>> THEN m
    ELSE Let(SerEntry(m, Head(es).k, Head(es).v), LAMBDA m1 : SerEntries(m1, Tail(es)))

\* JsonVisitor::finish: the map as one JSON object into the writer.
\* [w, ok]
finish(values, w) ==
    Let(EndMap(SerEntries(BeginMap(<<>>), values)),
        LAMBDA ops : Let(Run(w, ops), LAMBDA w1 : [w |-> w1, ok |-> ~w1.err]))

(***************************************************************************)
(* JsonFields: the field store.                                            *)
(***************************************************************************)
\* format_fields(writer, fields): [w, ok]
format_fields(w, batch, log) ==
    Let(RecordFields(<<>>, batch, log), LAMBDA values : finish(values, w))

\* add_fields(current, fields): [blob, ok], blob the String afterwards.
\* add_fields as it would be without the parse: the new fields serialized
\* behind the text current already holds.
MergeAppend(current, map, batch, log) ==
    Let(format_fields(StringWriter(current), batch, log),
        LAMBDA r : [blob |-> r.w.out, ok |-> r.ok])

\* The branch of a non-empty current as it would be if a failed parse stood
\* for an empty map and the result went into current before the error is
\* returned.
MergeOverCurrent(current, map, batch, log) ==
    Let(finish(RecordFields(IF map.ok THEN map.m ELSE <<>>, batch, log), StringWriter(<<>>)),
        LAMBDA r : [blob |-> r.w.out, ok |-> map.ok /\ r.ok])

\* The branch of a non-empty current: the parsed map seeds the visitor,
\* which finishes into a new String that replaces current.
MergeIntoNew(current, map, batch, log) ==
    IF ~map.ok THEN [blob |-> current, ok |-> FALSE]
    ELSE Let(RecordFields(map.m, batch, log),
             LAMBDA values :
                 Let(finish(values, StringWriter(<<>>)),
                     LAMBDA r : IF ~r.ok THEN [blob |-> current, ok |-> FALSE]
                                ELSE [blob |-> r.w.out, ok |-> TRUE]))

\* The branch of an empty current: the visitor finishes into current.
WriteIntoCurrent(current, batch, log) ==
    Let(format_fields(StringWriter(current), batch, log),
        LAMBDA r : [blob |-> r.w.out, ok |-> r.ok])

\* add_fields as it would be if it reused current whatever it holds.
AddFieldsReuse(current, batch, log) == WriteIntoCurrent(current, batch, log)

add_fields(current, batch, log) ==
    IF current # <<>>
    THEN Let(FromStrMap(current), LAMBDA map : MergeIntoNew(current, map, batch, log))
    ELSE WriteIntoCurrent(current, batch, log)

(***************************************************************************)
(* Keys and texts of the output.                                           *)
(***************************************************************************)
KTimestamp == <<"t", "i", "m", "e", "s", "t", "a", "m", "p">>
KLevel == <<"l", "e", "v", "e", "l">>
KFields == <<"f", "i", "e", "l", "d", "s">>
KTarget == <<"t", "a", "r", "g", "e", "t">>
KSpan == <<"s", "p", "a", "n">>
KSpans == <<"s", "p", "a", "n", "s">>
KThreadName == <<"t", "h", "r", "e", "a", "d", "N", "a", "m", "e">>
KThreadId == <<"t", "h", "r", "e", "a", "d", "I", "d">>
KName == <<"n", "a", "m", "e">>
KField == <<"f", "i", "e", "l", "d">>
KFieldError == <<"f", "i", "e", "l", "d", "_", "e", "r", "r", "o", "r">>
KMessage == <<"m", "e", "s", "s", "a", "g", "e">>

\* "field was no a valid object", abbreviated.
MsgNotObject == <<"n", "o", "_", "o", "b", "j">>

\* What the external collaborators hand over: the timer's text, the
\* event's level and target, the Debug text of the thread's id.
TimestampText == <<"t", "s">>
LevelText     == <<"I", "N", "F", "O">>
TargetText    == <<"t", "g">>
ThreadIdText  == <<"T", "1">>

(***************************************************************************)
(* The span registry, as format_event sees it: reg is the sequence of      *)
(* spans [name, parent, blob] (parent 0: a root), a span's id its index.   *)
(***************************************************************************)
\* SpanRef::parents: the parent first, the root last.
RECURSIVE Parents(_, _)
Parents(reg, id) ==
    IF reg[id].parent = 0 THEN <<>>
    ELSE <<reg[id].parent>> \o Parents(reg, reg[id].parent)

Reverse(q) == [i \in 1..Len(q) |-> q[Len(q) + 1 - i]]

\* A scope that starts at the current span and ends at the root.
ScopeLeafFirst(reg, cur) == IF cur = 0 THEN <<>> ELSE <<cur>> \o Parents(reg, cur)

\* Context::scope: the root first, the current span last.
Scope(reg, cur) == IF cur = 0 THEN <<>> ELSE Reverse(<<cur>> \o Parents(reg, cur))

\* serialize_key as it would be with a Key that forgets its prefix.
SerKeyedBare(m, namespace, prefix, key, val) ==
    [ops |-> m.ops \o (IF m.first THEN <<>> ELSE W(<<",">>))
                   \o WriteStr(key) \o W(<<":">>) \o WriteValue(val),
     first |-> FALSE]

\* map.serialize_key(&Key { key, prefix }).and_then(|_| map.serialize_value(value))
SerKeyed(m, namespace, prefix, key, val) ==
    [ops |-> m.ops \o (IF m.first THEN <<>> ELSE W(<<",">>))
                   \o (IF namespace THEN WriteDotted(prefix, key) ELSE WriteStr(key))
                   \o W(<<":">>) \o WriteValue(val),
     first |-> FALSE]

RECURSIVE SerKeyedAll(_, _, _, _)
SerKeyedAll(m, namespace, prefix, es) ==
    IF es = <<>> THEN m
    ELSE Let(SerKeyed(m, namespace, prefix, Head(es).k, Head(es).v),
             LAMBDA m1 : SerKeyedAll(m1, namespace, prefix, Tail(es)))

\* The match as it would be if fields that are no object were passed over
\* in silence in either build.
MatchFieldsSkip(m, data, prefix, namespace, dbg) ==
    IF data.ok /\ data.v.t = "obj"
    THEN SerKeyedAll(m, namespace, prefix, data.v.c)
    ELSE m

\* The arms of the match on serde_json::from_str::<Value>(&data); dbg is
\* cfg!(debug_assertions).
MatchFields(m, data, prefix, namespace, dbg) ==
    IF data.ok /\ data.v.t = "obj"
    THEN SerKeyedAll(m, namespace, prefix, data.v.c)
    ELSE IF data.ok
    THEN IF dbg THEN [m EXCEPT !.ops = @ \o OpPanic]
         ELSE Let(SerEntry(m, KField, data.v),
                  LAMBDA m1 : SerEntry(m1, KFieldError, VStr(MsgNotObject)))
    ELSE IF dbg THEN [m EXCEPT !.ops = @ \o OpPanic]
         ELSE SerEntry(m, KFieldError, VStr(ErrText(data.e)))

\* SerializableSpan::serialize_formatted_fields(map)
serialize_formatted_fields(m, span, namespace, dbg) ==
    Let(FromStrValue(span.blob),
        LAMBDA data : MatchFields(m, data, span.name, namespace, dbg))

\* <SerializableSpan as Serialize>::serialize
SerializeSpan(span, dbg) ==
    Let(serialize_formatted_fields(BeginMap(<<>>), span, FALSE, dbg),
        LAMBDA m : EndMap(SerEntry(m, KName, VStr(span.name))))

\* <SerializableContext as Serialize>::serialize: the spans of the scope.
RECURSIVE SerializeScope(_, _, _, _)
SerializeScope(reg, ids, first, dbg) ==
    IF ids = <<>> THEN <<>>
    ELSE (IF first THEN <<>> ELSE W(<<",">>))
         \o SerializeSpan(reg[Head(ids)], dbg)
         \o SerializeScope(reg, Tail(ids), FALSE, dbg)

SerializeContext(reg, cur, dbg) ==
    Let(Scope(reg, cur),
        LAMBDA ids : W(<<"[">>) \o SerializeScope(reg, ids, TRUE, dbg) \o W(<<"]">>))

\* MergeParentFieldsMap::merge_parent_fields: the current span, then its
\* parents.
RECURSIVE MergeSpans(_, _, _, _, _)
MergeSpans(m, reg, ids, namespace, dbg) ==
    IF ids = <<>> THEN m
    ELSE Let(serialize_formatted_fields(m, reg[Head(ids)], namespace, dbg),
             LAMBDA m1 : MergeSpans(m1, reg, Tail(ids), namespace, dbg))

\* merge_parent_fields as it would be walking the scope from the root.
MergeRootFirst(m, reg, cur, namespace, dbg) ==
    IF cur = 0 THEN m
    ELSE Let(Scope(reg, cur), LAMBDA ids : MergeSpans(m, reg, ids, namespace, dbg))

merge_parent_fields(m, reg, cur, namespace, dbg) ==
    IF cur = 0 THEN m
    ELSE Let(<<cur>> \o Parents(reg, cur),
             LAMBDA ids : MergeSpans(m, reg, ids, namespace, dbg))

\* event.record(&mut SerdeMapVisitor): one serialize_entry per field, under
\* the field's own name, in the event's order.
RECURSIVE RecordEvent(_, _)
RecordEvent(m, ev) ==
    IF ev = <<>> THEN m
    ELSE Let(SerEntry(m, Head(ev).name, FieldValue(Head(ev))),
             LAMBDA m1 : RecordEvent(m1, Tail(ev)))

\* <MergeParentFieldsMap as Serialize>::serialize
SerializeMerged(ev, reg, cur, namespace, dbg) ==
    Let(RecordEvent(BeginMap(<<>>), ev),
        LAMBDA m : EndMap(merge_parent_fields(m, reg, cur, namespace, dbg)))

\* event.field_map() serialized.
SerializeFieldMap(ev) == EndMap(RecordEvent(BeginMap(<<>>), ev))

\* serialize_entry(key, &value) of the root object, the value's program
\* given.
SerNested(m, key, valueOps) ==
    [ops |-> SerKey(m, key).ops \o valueOps, first |-> FALSE]

(***************************************************************************)
(* Format<Json, T>::format_event.                                          *)
(*   fc   flatten_event, display_current_span, display_span_list,          *)
(*        merge_parent_fields, namespace_parent_fields, display_target,    *)
(*        display_thread_name, display_thread_id                           *)
(*   env  timeOk (format_time succeeds), failAt, sticky, utf8 (the sink),  *)
(*        named (the thread has a name), tname                             *)
(* The result is [out, res, n, rej]: the text the sink has accepted, "ok", *)
(* "err" or "panic", the number of writes attempted, and whether one was   *)
(* refused.                                                                *)
(***************************************************************************)
\* The fields as they would be if the inline branch forgot the parents.
EmitFieldsInlineEventOnly(m, fc, ev, reg, cur, dbg) ==
    IF fc.flatten_event THEN RecordEvent(m, ev)
    ELSE IF fc.merge_parent_fields
    THEN SerNested(m, KFields,
                   SerializeMerged(ev, reg, cur, fc.namespace_parent_fields, dbg))
    ELSE SerNested(m, KFields, SerializeFieldMap(ev))

\* The fields: inline, or under `fields`.
EmitFields(m, fc, ev, reg, cur, dbg) ==
    IF fc.flatten_event
    THEN IF fc.merge_parent_fields
         THEN Let(RecordEvent(m, ev),
                  LAMBDA m1 : merge_parent_fields(m1, reg, cur,
                                                  fc.namespace_parent_fields, dbg))
         ELSE RecordEvent(m, ev)
    ELSE IF fc.merge_parent_fields
    THEN SerNested(m, KFields,
                   SerializeMerged(ev, reg, cur, fc.namespace_parent_fields, dbg))
    ELSE SerNested(m, KFields, SerializeFieldMap(ev))

EmitTarget(m, fc) ==
    IF fc.display_target THEN SerEntry(m, KTarget, VStr(TargetText)) ELSE m

\* `span`: .unwrap_or(()) drops an error of this entry, and the closure
\* goes on.
EmitSpan(m, fc, reg, current_span, dbg) ==
    IF fc.display_current_span /\ current_span # 0
    THEN [ops |-> m.ops \o OpTry
                  \o SerNested([ops |-> <<>>, first |-> m.first], KSpan,
                               SerializeSpan(reg[current_span], dbg)).ops
                  \o OpCatch,
          first |-> FALSE]
    ELSE m

\* `spans` as it would be without the test for a current span.
EmitSpansAlways(m, fc, reg, current_span, dbg) ==
    IF fc.display_span_list
    THEN SerNested(m, KSpans, SerializeContext(reg, current_span, dbg))
    ELSE m

EmitSpans(m, fc, reg, current_span, dbg) ==
    IF fc.display_span_list /\ current_span # 0
    THEN SerNested(m, KSpans, SerializeContext(reg, current_span, dbg))
    ELSE m

\* threadName with the fall-back taken whenever the thread has no name.
EmitThreadNameFallback(m, fc, env) ==
    IF fc.display_thread_name
    THEN SerEntry(m, KThreadName, VStr(IF env.named THEN env.tname ELSE ThreadIdText))
    ELSE m

\* if self.display_thread_name { match current_thread.name() { .. } }
EmitThreadName(m, fc, env) ==
    IF fc.display_thread_name
    THEN IF env.named THEN SerEntry(m, KThreadName, VStr(env.tname))
         ELSE IF ~fc.display_thread_id
         THEN SerEntry(m, KThreadName, VStr(ThreadIdText))
         ELSE m
    ELSE m

EmitThreadId(m, fc) ==
    IF fc.display_thread_id THEN SerEntry(m, KThreadId, VStr(ThreadIdText)) ELSE m

\* let current_span = ...
CurrentSpan(fc, cur) ==
    IF fc.display_current_span \/ fc.display_span_list THEN cur ELSE 0

\* A closure that writes `target` ahead of the event's fields.
VisitTargetFirst(fc, ev, env, reg, cur, dbg) ==
    Let(SerEntry(SerEntry(BeginMap(<<>>), KTimestamp, VStr(TimestampText)),
                 KLevel, VStr(LevelText)),
    LAMBDA m1 : Let(EmitTarget(m1, fc),
    LAMBDA m2 : Let(EmitFields(m2, fc, ev, reg, cur, dbg),
    LAMBDA m3 : Let(EmitSpan(m3, fc, reg, CurrentSpan(fc, cur), dbg),
    LAMBDA m4 : Let(EmitSpans(m4, fc, reg, CurrentSpan(fc, cur), dbg),
    LAMBDA m5 : Let(EmitThreadName(m5, fc, env),
    LAMBDA m6 : Let(EmitThreadId(m6, fc),
    LAMBDA m7 : EndMap(m7))))))))

\* The closure `visit`, up to serializer.end(): its program.
Visit(fc, ev, env, reg, cur, dbg) ==
    Let(SerEntry(SerEntry(BeginMap(<<>>), KTimestamp, VStr(TimestampText)),
                 KLevel, VStr(LevelText)),
    LAMBDA m1 : Let(EmitFields(m1, fc, ev, reg, cur, dbg),
    LAMBDA m2 : Let(EmitTarget(m2, fc),
    LAMBDA m3 : Let(EmitSpan(m3, fc, reg, CurrentSpan(fc, cur), dbg),
    LAMBDA m4 : Let(EmitSpans(m4, fc, reg, CurrentSpan(fc, cur), dbg),
    LAMBDA m5 : Let(EmitThreadName(m5, fc, env),
    LAMBDA m6 : Let(EmitThreadId(m6, fc),
    LAMBDA m7 : EndMap(m7))))))))

\* writeln!(writer): straight to the sink, past the WriteAdaptor.
Writeln(w) ==
    IF Refused(w, w.n + 1) /\ ~w.utf8
    THEN [w EXCEPT !.n = @ + 1, !.rej = TRUE, !.err = TRUE]
    ELSE [w EXCEPT !.n = @ + 1, !.out = @ \o <<"\n">>]

\* visit().map_err(|_| fmt::Error)?; writeln!(writer)
AfterVisit(w) ==
    IF w.panic THEN [out |-> w.out, res |-> "panic", n |-> w.n, rej |-> w.rej]
    ELSE IF w.err THEN [out |-> w.out, res |-> "err", n |-> w.n, rej |-> w.rej]
    ELSE Let(Writeln(w),
             LAMBDA w1 : [out |-> w1.out, res |-> IF w1.err THEN "err" ELSE "ok",
                          n |-> w1.n, rej |-> w1.rej])

format_event(fc, ev, env, reg, cur, dbg) ==
    IF ~env.timeOk THEN [out |-> <<>>, res |-> "err", n |-> 0, rej |-> FALSE]
    ELSE Let(Visit(fc, ev, env, reg, cur, dbg),
             LAMBDA ops :
                 Let(Run(NewWriter(<<>>, env.failAt, env.sticky, env.utf8), ops),
                     LAMBDA w : AfterVisit(w)))

(***************************************************************************)
(* The state machine.                                                      *)
(*   spans    the registry: [name, parent, blob] per span, blob the        *)
(*            FormattedFields<JsonFields> text of its extensions           *)
(*   stack    the thread's stack of entered spans, the current span last   *)
(*   cfg      the Format<Json, T> the collector was built with             *)
(*   debug    cfg!(debug_assertions)                                       *)
(*   log      cfg(feature = "tracing-log")                                 *)
(*   hist     per span, the batches recorded on it so far (history)        *)
(*   env      the environment of format_event: its timer, its sink and the *)
(*            thread                                                       *)
(*   last     the last call: [op, id, ok, ev, prev, rej], prev the blob    *)
(*            the call found, rej whether the sink refused a write         *)
(*   out,res  the text the last format_event left in the sink, and its     *)
(*            result ("ok", "err", "panic"; "none" after any other call)   *)
(* and, for the threads that share span 1,                                 *)
(*   lock     the lock of the span's extensions: [writer, readers]         *)
(*   writer   the thread in on_record: [pc, batch, ops, pos, w, inplace],  *)
(*            ops the writes of finish, pos the next one, w the String     *)
(*            they go to, inplace whether that String is the blob          *)
(*   reader   per reading thread [pc, data, at]: data the blob text it     *)
(*            read, at the number of blobs the span had held by then       *)
(*   rest     the blobs the span has held between calls, in order          *)
(***************************************************************************)
VARIABLES spans, stack, cfg, debug, log, env, hist, last, out, res,
          lock, writer, reader, rest

threads == <<lock, writer, reader, rest>>

vars == <<spans, stack, cfg, debug, log, env, hist, last, out, res, threads>>

\* Bounds of the model.
MaxSpans   == 2
MaxBatches == 2
MaxFailAt  == 100
MaxReaders == 2

NameA   == <<"a">>
NameB   == <<"b">>
NameRawA == <<"r", "#", "a">>
NameRawB == <<"r", "#", "b">>
NameLogA == <<"l", "o", "g", ".", "a">>
NameLogB == <<"l", "o", "g", ".", "b">>
NameQuote == <<"q", "\"">>

\* The name of the span created as number id.
SpanName(id) == IF id = 1 THEN <<"p">> ELSE <<"s">>

Current == IF stack = <<>> THEN 0 ELSE stack[Len(stack)]

JsonCfg(f, c, l, m, n) ==
    [flatten_event |-> f, display_current_span |-> c, display_span_list |-> l,
     merge_parent_fields |-> m, namespace_parent_fields |-> n,
     display_target |-> TRUE, display_thread_name |-> FALSE, display_thread_id |-> FALSE]

\* Json::default()
DefaultCfg == JsonCfg(FALSE, TRUE, TRUE, FALSE, TRUE)

\* The 32 configurations of Json.
JsonConfigs ==
    {JsonCfg(f, c, l, m, n) : f \in BOOLEAN, c \in BOOLEAN, l \in BOOLEAN,
                              m \in BOOLEAN, n \in BOOLEAN}

\* A sink that accepts every write, a timer that succeeds, a named thread.
QuietEnv ==
    [timeOk |-> TRUE, failAt |-> 0, sticky |-> FALSE, utf8 |-> FALSE,
     named |-> TRUE, tname |-> <<"m">>]

NoCall ==
    [op |-> "none", id |-> 0, ok |-> TRUE, ev |-> <<>>, prev |-> <<>>, rej |-> FALSE]

\* The attribute and record batches of the formatter's runs.
SpanBatches ==
    { <<>>,
      <<FI64(NameA, 2), FBool(NameB, TRUE)>> }

RecordBatches == { <<FStr(NameA, <<"x">>)>> }

Events ==
    { <<FDbg(KMessage, <<"h", "i">>)>>,
      <<FDbg(KMessage, <<"h", "i">>), FI64(NameA, 7)>> }

\* The batches of the field store's runs: every entry point, the prefixes
\* the visitor looks for, a name and a text that must be escaped.
StoreBatches ==
    { <<>>,
      <<FI64(NameA, -1)>>,
      <<FStr(NameA, <<"x">>), FBool(NameB, TRUE)>>,
      <<FDbg(NameRawA, <<"d", "\"">>)>>,
      <<FU64(NameRawB, 10)>>,
      <<FDbg(NameLogA, <<"x">>), FBool(NameLogB, FALSE)>>,
      <<FI64(NameQuote, 3)>> }

IdleWriter ==
    [pc |-> "idle", batch |-> <<>>, ops |-> <<>>, pos |-> 0, w |-> StringWriter(<<>>),
     inplace |-> FALSE]

IdleReader == [pc |-> "idle", data |-> <<>>, at |-> 0]

InitThreads ==
    /\ lock = [writer |-> FALSE, readers |-> 0]
    /\ writer = IdleWriter
    /\ reader = [t \in 1..MaxReaders |-> IdleReader]
    /\ rest = <<>>

InitCommon ==
    /\ spans = <<>>
    /\ hist = <<>>
    /\ stack = <<>>
    /\ last = NoCall
    /\ out = <<>>
    /\ res = "none"
    /\ InitThreads

Init ==
    /\ InitCommon
    /\ cfg \in JsonConfigs
    /\ debug = FALSE
    /\ log = TRUE
    /\ env = QuietEnv

\* on_new_span: the attributes formatted into a fresh String, which becomes
\* the span's FormattedFields; the parent is the current span.
NewSpan(batch) ==
    /\ res # "panic"
    /\ Len(spans) < MaxSpans
    /\ \E r \in {format_fields(StringWriter(<<>>), batch, log)} :
       /\ spans' = Append(spans, [name |-> SpanName(Len(spans) + 1), parent |-> Current,
                                  blob |-> r.w.out])
       /\ hist' = Append(hist, <<batch>>)
       /\ last' = [NoCall EXCEPT !.op = "new_span", !.id = Len(spans) + 1, !.ok = r.ok]
    /\ out' = <<>>
    /\ res' = "none"
    /\ UNCHANGED <<stack, cfg, debug, log, env, threads>>

\* on_record: add_fields on the span's FormattedFields; its result is
\* dropped.
Record(id, batch) ==
    /\ res # "panic"
    /\ id \in 1..Len(spans)
    /\ Len(hist[id]) < MaxBatches
    /\ \E r \in {add_fields(spans[id].blob, batch, log)} :
       /\ spans' = [spans EXCEPT ![id].blob = r.blob]
       /\ last' = [NoCall EXCEPT !.op = "record", !.id = id, !.ok = r.ok,
                                 !.prev = spans[id].blob]
    /\ hist' = [hist EXCEPT ![id] = Append(@, batch)]
    /\ out' = <<>>
    /\ res' = "none"
    /\ UNCHANGED <<stack, cfg, debug, log, env, threads>>

\* Span::enter
Enter(id) ==
    /\ res # "panic"
    /\ id \in 1..Len(spans)
    /\ \A i \in 1..Len(stack) : stack[i] # id
    /\ stack' = Append(stack, id)
    /\ last' = NoCall
    /\ out' = <<>>
    /\ res' = "none"
    /\ UNCHANGED <<spans, cfg, debug, log, env, hist, threads>>

\* The guard of the current span dropped.
Exit ==
    /\ res # "panic"
    /\ stack # <<>>
    /\ stack' = SubSeq(stack, 1, Len(stack) - 1)
    /\ last' = NoCall
    /\ out' = <<>>
    /\ res' = "none"
    /\ UNCHANGED <<spans, cfg, debug, log, env, hist, threads>>

\* An event: format_event into an empty buffer.
FormatEvent(ev) ==
    /\ res # "panic"
    /\ \E r \in {format_event(cfg, ev, env, spans, Current, debug)} :
       /\ out' = r.out
       /\ res' = r.res
       /\ last' = [op |-> "event", id |-> Current, ok |-> r.res = "ok", ev |-> ev,
                   prev |-> <<>>, rej |-> r.rej]
    /\ UNCHANGED <<spans, stack, cfg, debug, log, env, hist, threads>>

Next ==
    \/ \E batch \in SpanBatches : NewSpan(batch)
    \/ \E id \in 1..MaxSpans, batch \in RecordBatches : Record(id, batch)
    \/ \E id \in 1..MaxSpans : Enter(id)
    \/ Exit
    \/ \E ev \in Events : FormatEvent(ev)

Spec == Init /\ [][Next]_vars

(***************************************************************************)
(* The field store alone: span 1, whose blob starts empty, takes every      *)
(* batch of StoreBatches through add_fields; or a second span is created    *)
(* first, through format_fields, and takes them.                           *)
(***************************************************************************)
InitStore ==
    /\ spans = <<[name |-> SpanName(1), parent |-> 0, blob |-> <<>>]>>
    /\ hist = << <<>> >>
    /\ stack = <<>>
    /\ last = NoCall
    /\ out = <<>>
    /\ res = "none"
    /\ cfg = DefaultCfg
    /\ debug = FALSE
    /\ log \in BOOLEAN
    /\ env = QuietEnv
    /\ InitThreads

\* on_new_span before anything was recorded.
NewSpanFirst(batch) ==
    /\ Len(spans) = 1
    /\ hist[1] = <<>>
    /\ NewSpan(batch)

NextStore ==
    \/ \E batch \in StoreBatches : NewSpanFirst(batch)
    \/ \E batch \in StoreBatches : Record(Len(spans), batch)

SpecStore == InitStore /\ [][NextStore]_vars

(***************************************************************************)
(* A span whose FormattedFields no longer holds what JsonFields wrote: the *)
(* extension is a public String that any layer of the collector can        *)
(* rewrite.  debug is either build.                                        *)
(***************************************************************************)
\* A truncated object, and a JSON value that is no object.
CorruptTexts ==
    { <<"{", "\"", "a", "\"", ":">>,
      <<"[", "1", "]">> }

CorruptSpanBatches == { <<FI64(NameA, 1)>> }

\* The flags that decide which spans format_event reads, and the prefix.
CorruptConfigs ==
    {JsonCfg(FALSE, c, l, m, n) : c \in BOOLEAN, l \in BOOLEAN, m \in BOOLEAN,
                                  n \in BOOLEAN}

InitCorrupt ==
    /\ InitCommon
    /\ cfg \in CorruptConfigs
    /\ debug \in BOOLEAN
    /\ log = TRUE
    /\ env = QuietEnv

\* Another layer overwrites the extension of span id.
Corrupt(id, text) ==
    /\ res # "panic"
    /\ id \in 1..Len(spans)
    /\ spans[id].blob # text
    /\ spans' = [spans EXCEPT ![id].blob = text]
    /\ last' = NoCall
    /\ out' = <<>>
    /\ res' = "none"
    /\ UNCHANGED <<stack, cfg, debug, log, env, hist, threads>>

NextCorrupt ==
    \/ \E batch \in CorruptSpanBatches : NewSpan(batch)
    \/ \E id \in 1..MaxSpans, text \in CorruptTexts : Corrupt(id, text)
    \/ \E id \in 1..MaxSpans, batch \in RecordBatches : Record(id, batch)
    \/ \E id \in 1..MaxSpans : Enter(id)
    \/ Exit
    \/ \E ev \in Events : FormatEvent(ev)

SpecCorrupt == InitCorrupt /\ [][NextCorrupt]_vars

(***************************************************************************)
(* A sink that refuses a write of every event: the write numbered failAt,  *)
(* and when sticky every write after it; the refusal is write_str's, or    *)
(* from_utf8's in the WriteAdaptor.  Or a timer that fails.                *)
(***************************************************************************)
SinkEnvs ==
    {[QuietEnv EXCEPT !.failAt = k, !.sticky = st, !.utf8 = u] :
        k \in 0..MaxFailAt, st \in BOOLEAN, u \in BOOLEAN}
    \cup {[QuietEnv EXCEPT !.timeOk = FALSE]}

SinkSpanBatches == { <<FI64(NameA, 1)>> }

SinkEvents == { <<FDbg(KMessage, <<"h", "i">>)>> }

\* The default, the default without the span list, and the merged fields
\* inline with the current span.
SinkConfigs ==
    { DefaultCfg,
      JsonCfg(FALSE, TRUE, FALSE, FALSE, TRUE),
      JsonCfg(TRUE, TRUE, FALSE, TRUE, TRUE) }

InitSink ==
    /\ InitCommon
    /\ cfg \in SinkConfigs
    /\ debug = FALSE
    /\ log = TRUE
    /\ env \in SinkEnvs

NextSink ==
    \/ \E batch \in SinkSpanBatches : NewSpan(batch)
    \/ \E id \in 1..MaxSpans : Enter(id)
    \/ Exit
    \/ \E ev \in SinkEvents : FormatEvent(ev)

SpecSink == InitSink /\ [][NextSink]_vars

(***************************************************************************)
(* Every configuration of Format<Json, T>: the five flags of Json with     *)
(* display_target, display_thread_name and display_thread_id, on a thread  *)
(* with a name and on one without.                                         *)
(***************************************************************************)
FormatConfigs ==
    {[c EXCEPT !.display_target = t, !.display_thread_name = tn, !.display_thread_id = ti] :
        c \in JsonConfigs, t \in BOOLEAN, tn \in BOOLEAN, ti \in BOOLEAN}

ThreadEnvs == {QuietEnv, [QuietEnv EXCEPT !.named = FALSE]}

InitRoot ==
    /\ InitCommon
    /\ cfg \in FormatConfigs
    /\ debug = FALSE
    /\ log = TRUE
    /\ env \in ThreadEnvs

\* An event with a message and a field.
RootEvents == { <<FDbg(KMessage, <<"h", "i">>), FI64(NameA, 7)>> }

NextRoot ==
    \/ \E batch \in SinkSpanBatches : NewSpan(batch)
    \/ \E id \in 1..MaxSpans : Enter(id)
    \/ Exit
    \/ \E ev \in RootEvents : FormatEvent(ev)

SpecRoot == InitRoot /\ [][NextRoot]_vars

(***************************************************************************)
(* Span::record on a span declared with empty fields (test record_works):  *)
(* the span's blob is what format_fields makes of no field, and every      *)
(* batch of StoreBatches is recorded on it before and between events, in   *)
(* both builds.                                                            *)
(***************************************************************************)
RecordConfigs ==
    { DefaultCfg,
      JsonCfg(TRUE, TRUE, TRUE, FALSE, TRUE),
      JsonCfg(FALSE, FALSE, FALSE, TRUE, TRUE),
      JsonCfg(TRUE, FALSE, FALSE, TRUE, FALSE) }

InitRecord ==
    /\ spans = <<[name |-> SpanName(1), parent |-> 0,
                  blob |-> format_fields(StringWriter(<<>>), <<>>, TRUE).w.out]>>
    /\ hist = << <<>> >>
    /\ stack = <<>>
    /\ last = NoCall
    /\ out = <<>>
    /\ res = "none"
    /\ cfg \in RecordConfigs
    /\ debug \in BOOLEAN
    /\ log = TRUE
    /\ env = QuietEnv
    /\ InitThreads

NextRecord ==
    \/ \E batch \in StoreBatches : Record(1, batch)
    \/ Enter(1)
    \/ Exit
    \/ \E ev \in Events : FormatEvent(ev)

SpecRecord == InitRecord /\ [][NextRecord]_vars

(***************************************************************************)
(* Threads on one span: one records fields on it (on_record, add_fields    *)
(* write by write), the others format events that read its blob            *)
(* (serialize_formatted_fields).  The span's extensions are behind a       *)
(* readers-writer lock.                                                    *)
(***************************************************************************)
ConcBatches ==
    { <<FI64(NameA, 1)>>,
      <<FBool(NameB, TRUE)>> }

InitConc ==
    /\ spans = <<[name |-> SpanName(1), parent |-> 0, blob |-> <<>>]>>
    /\ hist = << <<>> >>
    /\ stack = <<1>>
    /\ last = NoCall
    /\ out = <<>>
    /\ res = "none"
    /\ cfg = DefaultCfg
    /\ debug = FALSE
    /\ log = TRUE
    /\ env = QuietEnv
    /\ lock = [writer |-> FALSE, readers |-> 0]
    /\ writer = IdleWriter
    /\ reader = [t \in 1..MaxReaders |-> IdleReader]
    /\ rest = << <<>> >>

\* The lock can be taken for reading.
ReadGuardNone(l) == TRUE

\* span.extensions(): the read guard, given while no writer holds the lock.
ReadGuardFree(l) == ~l.writer

\* span.extensions_mut(): the write guard, given while nobody holds the lock.
WriteGuardFree(l) == ~l.writer /\ l.readers = 0

\* on_record takes the write guard for a batch.
WAcquire(batch) ==
    /\ writer.pc = "idle"
    /\ Len(hist[1]) < MaxBatches
    /\ WriteGuardFree(lock)
    /\ lock' = [lock EXCEPT !.writer = TRUE]
    /\ writer' = [IdleWriter EXCEPT !.pc = "begin", !.batch = batch]
    /\ UNCHANGED <<spans, stack, cfg, debug, log, env, hist, last, out, res, reader, rest>>

\* add_fields up to the first write of finish: the parse of a non-empty
\* current and the visitor's map, into a new String; or the visitor on
\* current itself.
WBegin ==
    /\ writer.pc = "begin"
    /\ hist' = [hist EXCEPT ![1] = Append(@, writer.batch)]
    /\ IF spans[1].blob # <<>>
       THEN \E map \in {FromStrMap(spans[1].blob)} :
                IF ~map.ok
                THEN writer' = [writer EXCEPT !.pc = "release"]
                ELSE \E values \in {RecordFields(map.m, writer.batch, log)} :
                         writer' = [writer EXCEPT
                                       !.pc = "write",
                                       !.ops = EndMap(SerEntries(BeginMap(<<>>), values)),
                                       !.pos = 1,
                                       !.w = StringWriter(<<>>),
                                       !.inplace = FALSE]
       ELSE \E values \in {RecordFields(<<>>, writer.batch, log)} :
                writer' = [writer EXCEPT
                              !.pc = "write",
                              !.ops = EndMap(SerEntries(BeginMap(<<>>), values)),
                              !.pos = 1,
                              !.w = StringWriter(spans[1].blob),
                              !.inplace = TRUE]
    /\ UNCHANGED <<spans, stack, cfg, debug, log, env, last, out, res, lock, reader, rest>>

\* One write of finish, into the new String or into current.
WStep ==
    /\ writer.pc = "write"
    /\ writer.pos <= Len(writer.ops)
    /\ \E w1 \in {Step(writer.w, writer.ops[writer.pos])} :
       /\ writer' = [writer EXCEPT !.w = w1, !.pos = @ + 1]
       /\ spans' = IF writer.inplace THEN [spans EXCEPT ![1].blob = w1.out] ELSE spans
    /\ UNCHANGED <<stack, cfg, debug, log, env, hist, last, out, res, lock, reader, rest>>

\* finish has returned: *current = new, or nothing more to do.
WCommit ==
    /\ writer.pc = "write"
    /\ writer.pos > Len(writer.ops)
    /\ spans' = IF writer.inplace THEN spans ELSE [spans EXCEPT ![1].blob = writer.w.out]
    /\ writer' = [writer EXCEPT !.pc = "release"]
    /\ UNCHANGED <<stack, cfg, debug, log, env, hist, last, out, res, lock, reader, rest>>

\* The write guard dropped.
WRelease ==
    /\ writer.pc = "release"
    /\ lock' = [lock EXCEPT !.writer = FALSE]
    /\ writer' = IdleWriter
    /\ rest' = Append(rest, spans[1].blob)
    /\ UNCHANGED <<spans, stack, cfg, debug, log, env, hist, last, out, res, reader>>

\* serialize_formatted_fields takes the read guard.
RAcquire(t) ==
    /\ reader[t].pc = "idle"
    /\ ReadGuardFree(lock)
    /\ lock' = [lock EXCEPT !.readers = @ + 1]
    /\ reader' = [reader EXCEPT ![t].pc = "locked"]
    /\ UNCHANGED <<spans, stack, cfg, debug, log, env, hist, last, out, res, writer, rest>>

\* It reads the text of the FormattedFields.
RRead(t) ==
    /\ reader[t].pc = "locked"
    /\ reader' = [reader EXCEPT ![t] = [pc |-> "read", data |-> spans[1].blob,
                                        at |-> Len(rest)]]
    /\ UNCHANGED <<spans, stack, cfg, debug, log, env, hist, last, out, res, lock, writer,
                   rest>>

\* It returns, and the guard is dropped.
RRelease(t) ==
    /\ reader[t].pc = "read"
    /\ lock' = [lock EXCEPT !.readers = @ - 1]
    /\ reader' = [reader EXCEPT ![t].pc = "idle"]
    /\ UNCHANGED <<spans, stack, cfg, debug, log, env, hist, last, out, res, writer, rest>>

NextConc ==
    \/ \E batch \in ConcBatches : WAcquire(batch)
    \/ WBegin
    \/ WStep
    \/ WCommit
    \/ WRelease
    \/ \E t \in 1..MaxReaders : RAcquire(t)
    \/ \E t \in 1..MaxReaders : RRead(t)
    \/ \E t \in 1..MaxReaders : RRelease(t)

SpecConc == InitConc /\ [][NextConc]_vars

(***************************************************************************)
(* Reading a state back: the recordings of a span, and its blob as JSON.   *)
(***************************************************************************)
Range(q) == {q[i] : i \in 1..Len(q)}

RECURSIVE Concat(_)
Concat(qs) == IF qs = <<>> THEN <<>> ELSE Head(qs) \o Concat(Tail(qs))

\* What the visitor stores for one field on its own: no entry, or one.
StoredAs(f, lg) == RecordFields(<<>>, <<f>>, lg)

\* The entries the fields of fs are stored as, in the order recorded.
RECURSIVE StoredEntries(_, _)
StoredEntries(fs, lg) ==
    IF fs = <<>> THEN <<>> ELSE StoredAs(Head(fs), lg) \o StoredEntries(Tail(fs), lg)

\* The union of the entries es in which a later entry of a name replaces
\* every earlier one.
LastWins(es) ==
    {es[i] : i \in {j \in 1..Len(es) : \A k \in (j + 1)..Len(es) : es[k].k # es[j].k}}

\* The entries of a text that parses as a JSON object.
IsObjectText(text) == FromStrValue(text).ok /\ FromStrValue(text).v.t = "obj"
ObjectEntries(text) == Range(FromStrValue(text).v.c)

\* C1: whatever batches were applied with add_fields to the blob of span 1,
\* which started empty, the blob parses as the JSON object whose entries are
\* the union of the batches' fields with a later value of a name replacing
\* every earlier one, and it is the blob one add_fields of all the
\* recordings as a single batch gives.
C1_MergeIsUnion ==
    hist[1] # <<>> =>
        /\ IsObjectText(spans[1].blob)
        /\ ObjectEntries(spans[1].blob) = LastWins(StoredEntries(Concat(hist[1]), log))
        /\ spans[1].blob = add_fields(<<>>, Concat(hist[1]), log).blob

\* C2: the blob of every span is empty or parses as a JSON object, after
\* every format_fields and add_fields call, failed ones included.
C2_BlobEmptyOrObject ==
    \A id \in 1..Len(spans) : spans[id].blob = <<>> \/ IsObjectText(spans[id].blob)

\* An add_fields call that failed on a span whose blob holds fields, and one
\* that merged into such a blob.
C2_Witness ==
    /\ last.op = "record"
    /\ ~last.ok
    /\ last.prev # <<>>
    /\ Len(spans) = 2
    /\ Len(hist[2]) = 2
    /\ spans[2].blob # <<"{", "}">>

(***************************************************************************)
(* Reading a line back: the root object of the line format_event wrote,    *)
(* its entries in the order written and with repeated keys kept, and what  *)
(* the registry says the line is to hold.                                  *)
(***************************************************************************)
\* The line without its terminator.
Line == IF out # <<>> /\ out[Len(out)] = "\n" THEN SubSeq(out, 1, Len(out) - 1) ELSE out

Terminators == Cardinality({i \in 1..Len(out) : out[i] = "\n"})

Root == ParseDoc(Line)
RootIsObject == Root.ok /\ Root.v.t = "obj"
RootEntries == Root.v.c

KeysOf(es) == [i \in 1..Len(es) |-> es[i].k]
ValuesAt(es, key) == SelectSeq(es, LAMBDA e : e.k = key)
HasKey(es, key) == \E i \in 1..Len(es) : es[i].k = key

\* The entries of the root between `level` and `target`.
InlineEntries ==
    LET t == CHOOSE i \in 3..Len(RootEntries) : RootEntries[i].k = KTarget
    IN  SubSeq(RootEntries, 3, t - 1)

\* The field entries of the line: inline, or those of `fields`.
FieldEntries ==
    IF cfg.flatten_event THEN InlineEntries
    ELSE ValuesAt(RootEntries, KFields)[1].v.c

\* The current span, then its parents up to the root.
Path(cur) == IF cur = 0 THEN <<>> ELSE <<cur>> \o Parents(spans, cur)

\* What an event's own fields are written as.
EventEntries(ev) == [i \in 1..Len(ev) |-> Entry(ev[i].name, FieldValue(ev[i]))]

Dotted(prefix, key) == prefix \o <<".">> \o key

\* What the stored fields of a span contribute: the entries of its blob in
\* key order, or the diagnostic entries of a blob that is no object.
Contribution(span, namespace) ==
    LET d == FromStrValue(span.blob) IN
    IF d.ok /\ d.v.t = "obj"
    THEN [i \in 1..Len(d.v.c) |->
             Entry(IF namespace THEN Dotted(span.name, d.v.c[i].k) ELSE d.v.c[i].k,
                   d.v.c[i].v)]
    ELSE IF d.ok
    THEN <<Entry(KField, d.v), Entry(KFieldError, VStr(MsgNotObject))>>
    ELSE <<Entry(KFieldError, VStr(ErrText(d.e)))>>

RECURSIVE Contributions(_, _)
Contributions(ids, namespace) ==
    IF ids = <<>> THEN <<>>
    ELSE Contribution(spans[Head(ids)], namespace) \o Contributions(Tail(ids), namespace)

\* The object a span is written as under `span` and in `spans`.
SpanObject(id) ==
    VObj(Contribution(spans[id], FALSE) \o <<Entry(KName, VStr(spans[id].name))>>)

\* The keys of the root around the field entries.
ExpectedTail ==
    <<KTarget>>
        \o (IF cfg.display_current_span /\ Current # 0 THEN <<KSpan>> ELSE <<>>)
        \o (IF cfg.display_span_list /\ Current # 0 THEN <<KSpans>> ELSE <<>>)

\* The spans whose blob format_event reads.
ReadIds ==
    IF Current = 0 THEN {}
    ELSE (IF cfg.merge_parent_fields \/ cfg.display_span_list
          THEN Range(Path(Current)) ELSE {})
         \cup (IF cfg.display_current_span THEN {Current} ELSE {})

\* C3: add_fields on a non-empty blob that does not parse as a JSON object
\* aborts the process in a strict build; in a resilient build it succeeds
\* and leaves a JSON object that holds a `field_error` entry.
C3_CorruptMergeHandled ==
    (last.op = "record" /\ last.prev # <<>> /\ ~IsObjectText(last.prev)) =>
        IF debug THEN res = "panic"
        ELSE /\ last.ok
             /\ IsObjectText(spans[last.id].blob)
             /\ \E e \in ObjectEntries(spans[last.id].blob) :
                    e.k = KFieldError /\ e.v.t = "str"

\* C4: an event formatted while a span it reads has a blob that is no JSON
\* object: a strict build panics; a resilient build succeeds, the span
\* contributes one `field_error` entry with the parse error (a `field` entry
\* with the value and a `field_error` entry when the blob is JSON but no
\* object), its `name` is still written, and the rest of the line is what
\* it would be.
C4_CorruptBlobFormatted ==
    (last.op = "event" /\ \E id \in ReadIds : ~IsObjectText(spans[id].blob)) =>
        IF debug THEN res = "panic"
        ELSE /\ res = "ok"
             /\ RootIsObject
             /\ KeysOf(RootEntries) = <<KTimestamp, KLevel, KFields>> \o ExpectedTail
             /\ FieldEntries =
                    EventEntries(last.ev)
                        \o (IF cfg.merge_parent_fields
                            THEN Contributions(Path(Current), cfg.namespace_parent_fields)
                            ELSE <<>>)
             /\ cfg.display_current_span =>
                    ValuesAt(RootEntries, KSpan)[1].v = SpanObject(Current)
             /\ cfg.display_span_list =>
                    ValuesAt(RootEntries, KSpans)[1].v
                        = VArr([i \in 1..Len(Scope(spans, Current)) |->
                                   Entry(<<>>, SpanObject(Scope(spans, Current)[i]))])

\* A resilient build has formatted an event inside a span with a truncated
\* blob whose parent's blob is JSON but no object, all three places on.
C4_Witness ==
    /\ last.op = "event"
    /\ ~debug
    /\ res = "ok"
    /\ cfg.merge_parent_fields /\ cfg.display_current_span /\ cfg.display_span_list
    /\ Len(Path(Current)) = 2
    /\ ~FromStrValue(spans[Path(Current)[1]].blob).ok
    /\ FromStrValue(spans[Path(Current)[2]].blob).ok
    /\ ~IsObjectText(spans[Path(Current)[2]].blob)

\* The line the event of the last call is written as when no write is
\* refused.
FullLine == format_event(cfg, last.ev, QuietEnv, spans, Current, debug).out

\* C5: when the sink or from_utf8 refuses a write during format_event, the
\* call fails and no terminator is written; a call that succeeds has
\* written the whole line.
C5_SinkFailureFails ==
    last.op = "event" =>
        /\ last.rej => (res = "err" /\ Terminators = 0)
        /\ res = "ok" => out = FullLine

\* The writes format_event makes fit the writes a sink may refuse.
WritesCovered ==
    last.op = "event" =>
        format_event(cfg, last.ev, QuietEnv, spans, Current, debug).n <= MaxFailAt

(***************************************************************************)
(* The field entries of a line against the registry.                       *)
(***************************************************************************)
Count(es, e) == Cardinality({i \in 1..Len(es) : es[i] = e})
CountKey(es, key) == Cardinality({i \in 1..Len(es) : es[i].k = key})

\* The fields stored on span id, by bare name.
Stored(id) == ObjectEntries(spans[id].blob)

\* The spans of the path that store a field under the bare name key.
Storing(key) == {i \in 1..Len(Path(Current)) : \E e \in Stored(Path(Current)[i]) : e.k = key}

BareNames ==
    {last.ev[i].name : i \in 1..Len(last.ev)}
        \cup UNION {{e.k : e \in Stored(id)} : id \in Range(Path(Current))}

AfterEvent == last.op = "event" /\ res = "ok"

\* C7: with merge_parent_fields, the event's own fields are written under
\* their bare names; with namespace_parent_fields every field stored on a
\* span of the path is written under `<span name>.<field name>`; without
\* it, it is written under its bare name, and a bare name has as many
\* entries as the event and the spans of the path have fields of that name,
\* each with its own value.
C7_NamespacedOrRepeated ==
    (AfterEvent /\ cfg.merge_parent_fields) =>
        /\ \A i \in 1..Len(last.ev) :
               FieldEntries[i] = Entry(last.ev[i].name, FieldValue(last.ev[i]))
        /\ \A id \in Range(Path(Current)) : \A e \in Stored(id) :
               Count(FieldEntries,
                     IF cfg.namespace_parent_fields
                     THEN Entry(Dotted(spans[id].name, e.k), e.v) ELSE e) >= 1
        /\ ~cfg.namespace_parent_fields =>
               \A key \in BareNames :
                   CountKey(FieldEntries, key)
                       = CountKey(EventEntries(last.ev), key) + Cardinality(Storing(key))

\* Without the prefix, an event with a field `a` inside two nested spans
\* that both store `a`: three entries `a`.
C7_Witness ==
    /\ AfterEvent
    /\ cfg.merge_parent_fields
    /\ ~cfg.namespace_parent_fields
    /\ Len(Path(Current)) = 2
    /\ CountKey(EventEntries(last.ev), NameA) = 1
    /\ Cardinality(Storing(NameA)) = 2
    /\ CountKey(FieldEntries, NameA) = 3

\* C8: with merge_parent_fields the field entries are the event's own
\* fields, then the stored fields of the current span, of its parent, and so
\* on up to the root, each once and those of no other span; the event's own
\* fields alone when there is no current span; whatever
\* display_current_span and display_span_list are.
C8_MergedSetIsPath ==
    (AfterEvent /\ cfg.merge_parent_fields) =>
        FieldEntries
            = EventEntries(last.ev)
                \o Contributions(Path(Current), cfg.namespace_parent_fields)

\* Both display flags off, an event inside a span with fields whose parent
\* has fields.
C8_Witness ==
    /\ AfterEvent
    /\ cfg.merge_parent_fields
    /\ ~cfg.display_current_span /\ ~cfg.display_span_list
    /\ Len(Path(Current)) = 2
    /\ Stored(Path(Current)[1]) # {}
    /\ Stored(Path(Current)[2]) # {}
    /\ Len(FieldEntries) > Len(last.ev) + 1

\* The root of the line the same event gives with flatten_event the other
\* way.
OtherRoot ==
    LET o == format_event([cfg EXCEPT !.flatten_event = ~cfg.flatten_event], last.ev, env,
                          spans, Current, debug).out
    IN  ParseDoc(SubSeq(o, 1, Len(o) - 1)).v.c

\* C9: the field entries written inline with flatten_event are, in order,
\* the entries of the `fields` object written without it, whatever
\* merge_parent_fields, namespace_parent_fields and the spans; with
\* flatten_event there is no `fields` key in the root, without it exactly
\* one.
C9_FlattenSameEntries ==
    AfterEvent =>
        IF cfg.flatten_event
        THEN /\ CountKey(RootEntries, KFields) = 0
             /\ InlineEntries = ValuesAt(OtherRoot, KFields)[1].v.c
        ELSE /\ CountKey(RootEntries, KFields) = 1
             /\ CountKey(OtherRoot, KFields) = 0

\* An inline line with merged fields of two spans.
C9_Witness ==
    /\ AfterEvent
    /\ cfg.flatten_event
    /\ cfg.merge_parent_fields
    /\ Len(Path(Current)) = 2
    /\ Len(InlineEntries) > Len(last.ev) + 1

\* C10: the root has a `span` key exactly when there is a current span and
\* display_current_span is set, a `spans` key exactly when there is a
\* current span and display_span_list is set, in each of the 32
\* configurations; so neither without a current span.
C10_SpanKeysOnlyInSpan ==
    AfterEvent =>
        /\ CountKey(RootEntries, KSpan)
               = (IF Current # 0 /\ cfg.display_current_span THEN 1 ELSE 0)
        /\ CountKey(RootEntries, KSpans)
               = (IF Current # 0 /\ cfg.display_span_list THEN 1 ELSE 0)

\* An event outside every span, spans existing, both flags set.
C10_Witness ==
    /\ AfterEvent
    /\ Current = 0
    /\ Len(spans) = 2
    /\ cfg.display_current_span /\ cfg.display_span_list
    /\ ~HasKey(RootEntries, KSpan) /\ ~HasKey(RootEntries, KSpans)

\* C6: what a thread formatting an event reads as the blob of a span is a
\* blob the span held between two add_fields calls (the latest one when it
\* took the guard), and no add_fields is between its writes meanwhile:
\* never a text that add_fields has written in part.
C6_ReaderSeesCompleteBlob ==
    \A t \in 1..MaxReaders :
        reader[t].pc = "read" =>
            /\ reader[t].data = rest[reader[t].at]
            /\ reader[t].data = <<>> \/ IsObjectText(reader[t].data)
            /\ writer.pc \in {"idle"}

\* A reader holds the blob that a second merge left, which differs from the
\* one before that merge.
C6_Witness ==
    \E t \in 1..MaxReaders :
        /\ reader[t].pc = "read"
        /\ reader[t].data # <<>>
        /\ Len(rest) = 3
        /\ reader[t].data = rest[3]
        /\ rest[3] # rest[2]

\* The fields recorded on span id since it was created, a later value of a
\* name in place of every earlier one.
Recorded(id) == LastWins(StoredEntries(Concat(hist[id]), log))

\* The object written for span id holds its recorded fields, each once and
\* under its bare name, and then its name.
IsObjectOf(v, id) ==
    /\ v.t = "obj"
    /\ Len(v.c) = Cardinality(Recorded(id)) + 1
    /\ Range(SubSeq(v.c, 1, Len(v.c) - 1)) = Recorded(id)
    /\ v.c[Len(v.c)] = Entry(KName, VStr(spans[id].name))

\* C11: after an event inside a span, `spans` (when display_span_list is
\* set) is an array with one object per span of the path, the root first
\* and the current span last, and `span` (when display_current_span is set)
\* is the object of the current span; each object holds the fields recorded
\* on that span under their bare names and then a `name` entry with the
\* span's name.
C11_SpansRootToLeaf ==
    (AfterEvent /\ Current # 0) =>
        /\ cfg.display_span_list =>
               /\ ValuesAt(RootEntries, KSpans)[1].v.t = "arr"
               /\ Len(ValuesAt(RootEntries, KSpans)[1].v.c) = Len(Path(Current))
               /\ \A i \in 1..Len(Path(Current)) :
                      IsObjectOf(ValuesAt(RootEntries, KSpans)[1].v.c[i].v,
                                 Path(Current)[Len(Path(Current)) + 1 - i])
        /\ cfg.display_current_span =>
               IsObjectOf(ValuesAt(RootEntries, KSpan)[1].v, Current)

\* Both keys written for an event inside a span that has fields and whose
\* parent has other fields.
C11_Witness ==
    /\ AfterEvent
    /\ cfg.display_span_list /\ cfg.display_current_span
    /\ Len(Path(Current)) = 2
    /\ Recorded(Path(Current)[1]) # {}
    /\ Recorded(Path(Current)[2]) # {}
    /\ Recorded(Path(Current)[1]) # Recorded(Path(Current)[2])
    /\ Len(ValuesAt(RootEntries, KSpans)[1].v.c) = 2

\* The keys of the root in the order format_event is to write them.
RootKeyOrder ==
    <<KTimestamp, KLevel>>
        \o (IF cfg.flatten_event
            THEN KeysOf(EventEntries(last.ev))
                     \o (IF cfg.merge_parent_fields
                         THEN KeysOf(Contributions(Path(Current), cfg.namespace_parent_fields))
                         ELSE <<>>)
            ELSE <<KFields>>)
        \o (IF cfg.display_target THEN <<KTarget>> ELSE <<>>)
        \o (IF cfg.display_current_span /\ Current # 0 THEN <<KSpan>> ELSE <<>>)
        \o (IF cfg.display_span_list /\ Current # 0 THEN <<KSpans>> ELSE <<>>)
        \o (IF cfg.display_thread_name /\ (env.named \/ ~cfg.display_thread_id)
            THEN <<KThreadName>> ELSE <<>>)
        \o (IF cfg.display_thread_id THEN <<KThreadId>> ELSE <<>>)

\* C12: the keys of the root are, in this order, timestamp, level, the
\* event's fields (`fields`, or the field entries inline), target, span,
\* spans, threadName, threadId, those that are disabled left out and none
\* twice; and a successful format_event leaves one object, its closing
\* brace, one line terminator and nothing more.
C12_RootOrderAndTerminator ==
    AfterEvent =>
        /\ RootIsObject
        /\ KeysOf(RootEntries) = RootKeyOrder
        /\ Terminators = 1
        /\ out[1] = "{"
        /\ out[Len(out) - 1] = "}"
        /\ out[Len(out)] = "\n"

\* Every entry of the root enabled, inline fields of a span among them.
C12_Witness ==
    /\ AfterEvent
    /\ cfg.flatten_event /\ cfg.merge_parent_fields
    /\ cfg.display_target /\ cfg.display_current_span /\ cfg.display_span_list
    /\ cfg.display_thread_name /\ cfg.display_thread_id
    /\ env.named
    /\ Current # 0
    /\ Len(last.ev) = 2
    /\ Len(RootEntries) = 10

\* The message of the event of the last call, as an entry.
MessageEntry == Entry(KMessage, FieldValue(last.ev[1]))

\* One line, which parses as a JSON object.
OneLine ==
    /\ res = "ok"
    /\ Terminators = 1
    /\ out[Len(out)] = "\n"
    /\ RootIsObject

\* C13 as stated: with a sink that accepts every write, every event gives
\* one line that parses as a JSON object with the event's message under
\* fields.message, also inside a span declared with empty fields on which
\* fields were recorded before or between events.
C13_MessageUnderFields ==
    last.op = "event" =>
        /\ OneLine
        /\ CountKey(RootEntries, KFields) = 1
        /\ ValuesAt(ValuesAt(RootEntries, KFields)[1].v.c, KMessage) = <<MessageEntry>>

\* C13 as it holds: every event gives one line that parses as a JSON
\* object; the event's message is under fields.message without
\* flatten_event, and under `message` in the root with it.
C13_MessageByLayout ==
    last.op = "event" =>
        /\ OneLine
        /\ IF cfg.flatten_event
           THEN /\ CountKey(RootEntries, KFields) = 0
                /\ ValuesAt(RootEntries, KMessage) = <<MessageEntry>>
           ELSE /\ CountKey(RootEntries, KFields) = 1
                /\ ValuesAt(ValuesAt(RootEntries, KFields)[1].v.c, KMessage)
                       = <<MessageEntry>>

\* An event inside the span after two recordings that both stored fields,
\* in the default configuration.
C13_Witness ==
    /\ AfterEvent
    /\ cfg = DefaultCfg
    /\ Current = 1
    /\ Len(hist[1]) = 2
    /\ Cardinality(Stored(1)) >= 2
    /\ ValuesAt(ValuesAt(RootEntries, KFields)[1].v.c, KMessage) = <<MessageEntry>>

\* The batch of the last new_span or record call.
LastBatch == hist[last.id][Len(hist[last.id])]

\* The spans whose blob holds an object.
ObjectSpans == {id \in 1..Len(spans) : IsObjectText(spans[id].blob)}

\* C14: whatever entry point a field goes through, no key of a stored blob
\* starts with `r#`, and a field named `r#x` that a successful call
\* recorded is stored under `x`.
C14_RawPrefixStripped ==
    /\ \A id \in ObjectSpans : \A e \in Stored(id) : ~StartsWith(e.k, RawPrefix)
    /\ (last.op \in {"new_span", "record"} /\ last.ok) =>
           \A i \in 1..Len(LastBatch) :
               StartsWith(LastBatch[i].name, RawPrefix) =>
                   \E e \in Stored(last.id) :
                       e.k = SubSeq(LastBatch[i].name, 3, Len(LastBatch[i].name))

\* C15: with the tracing-log feature, whatever entry point a field goes
\* through, no key of a stored blob starts with `log.`, and a successful
\* add_fields keeps every entry of the blob whose name no field of the
\* batch is stored under.
C15_LogPrefixSkipped ==
    log =>
        /\ \A id \in ObjectSpans : \A e \in Stored(id) : ~StartsWith(e.k, LogPrefix)
        /\ (last.op = "record" /\ last.ok /\ IsObjectText(last.prev)) =>
               \A e \in ObjectEntries(last.prev) :
                   (\A n \in Range(StoredEntries(LastBatch, log)) : n.k # e.k)
                       => e \in Stored(last.id)

\* C16: the root has one `threadId` entry with display_thread_id and none
\* without it; with display_thread_name it has one `threadName` entry: the
\* thread's name if it has one, the thread-id text if it has none and
\* display_thread_id is off, and no entry if it has none and
\* display_thread_id is on; without display_thread_name it has none.
C16_ThreadEntries ==
    AfterEvent =>
        /\ ValuesAt(RootEntries, KThreadId)
               = (IF cfg.display_thread_id
                  THEN <<Entry(KThreadId, VStr(ThreadIdText))>> ELSE <<>>)
        /\ ValuesAt(RootEntries, KThreadName)
               = (IF ~cfg.display_thread_name THEN <<>>
                  ELSE IF env.named THEN <<Entry(KThreadName, VStr(env.tname))>>
                  ELSE IF ~cfg.display_thread_id
                  THEN <<Entry(KThreadName, VStr(ThreadIdText))>>
                  ELSE <<>>)

\* A thread without a name, both displays on: `threadId` and no
\* `threadName`.
C16_Witness ==
    /\ AfterEvent
    /\ ~env.named
    /\ cfg.display_thread_name /\ cfg.display_thread_id
    /\ CountKey(RootEntries, KThreadId) = 1
    /\ CountKey(RootEntries, KThreadName) = 0

\* C17: after an add_fields call that returned an error, the blob of the
\* span is the text the call found: no field of the batch is merged in,
\* nothing is cut off and nothing is appended.
C17_FailedMergeKeepsBlob ==
    (last.op = "record" /\ ~last.ok) => spans[last.id].blob = last.prev

\* add_fields has failed with a batch that holds a field, on a blob that is
\* a truncated object, and the blob is still that text.
C17_Witness ==
    /\ last.op = "record"
    /\ ~last.ok
    /\ LastBatch # <<>>
    /\ ~FromStrValue(last.prev).ok
    /\ last.prev \in CorruptTexts
    /\ spans[last.id].blob = last.prev

====
